---- MODULE Spec2Model ----
(***************************************************************************)
(* The room page of the poker client (RoomPage), the user store and the    *)
(* auth initializer: the life cycle of the page's WebSocket connection.    *)
(*                                                                         *)
(* One action models one handler run to completion on the event loop:      *)
(* React effects (mount, dependency change, unmount), the socket callbacks *)
(* (onopen, onerror, onclose), the reconnect timer callback, the store     *)
(* actions and the resolution of the two HTTP requests.                    *)
(*                                                                         *)
(* React state setters of an unmounted component do nothing; refs and      *)
(* sockets outlive the component, so callbacks keep running after unmount. *)
(***************************************************************************)
EXTENDS Integers, Sequences, FiniteSets, TLC

\* ---------------------------------------------------------------- bounds
MaxSockets == 7        \* WebSocket objects created in one behaviour
MaxNav == 1            \* changes of the roomId route parameter

\* ------------------------------------------------------ program constants
MaxReconnect == 5      \* reconnectAttempt.current < 5
NoSocket == 0          \* useState<WebSocket | null>(null)

NoRoom == ""
Rooms == {"r1", "r2"}
NoUser == "<null>"      \* username: null; the empty string is a name
Users == {"alice"}

IntentionalCodes == {1000, 1001}
RemoteCloseCodes == {1000, 1001, 1006}

VARIABLES
  isInitialized,     \* userStore.isInitialized
  isLoggedIn,        \* userStore.isLoggedIn
  username,          \* userStore.username
  authPc,            \* AuthInitializer.checkAuthStatus: "fetching" | "decided" | "done"
  lifecycle,         \* RoomPage: "rendered" (effects not yet run) | "mounted" | "unmounted"
  roomId,            \* params.roomId
  redirected,        \* router.push('/login') was called
  room,              \* useState<Room | null>
  isLoading,         \* useState<boolean>(true)
  error,             \* useState<string | null>
  fetches,           \* GET /api/rooms/:id requests in flight, per room
  ws,                \* useState<WebSocket | null>
  connectionStatus,  \* useState<string>
  reconnectAttempt,  \* useRef(0)
  sock,              \* every WebSocket created so far, by creation order
  sessions,          \* every run of the WebSocket effect that connected
  effectOn,          \* the WebSocket effect has a cleanup registered
  effectWs,          \* the value of ws captured by that cleanup's closure
  navs,              \* count of roomId changes (bounded by MaxNav)
  last,              \* the handler that ran last and what it saw
  closeRun,          \* close events since the last open event
  abnormalRun,       \* of these, the latest run of closes with an abnormal code
  retryRun,          \* reconnect timers scheduled since the last open event
  gameState,         \* useState<GameState | null>
  myHand,            \* useState<string[]>([])
  chatMessages,      \* useState<string[]>([])
  chatInput,         \* useState<string>('')
  betAmount,         \* useState<number>(10)
  sent,              \* frames written with ws.send, oldest first
  received,          \* count of message events delivered
  logoutPc           \* handleLogout of the header: idle, posting, leaving

vars == <<isInitialized, isLoggedIn, username, authPc, lifecycle, roomId,
          redirected, room, isLoading, error, fetches, ws, connectionStatus,
          reconnectAttempt, sock, sessions, effectOn, effectWs, navs, last,
          closeRun, abnormalRun, retryRun, gameState, myHand, chatMessages,
          chatInput, betAmount, sent, received, logoutPc>>

storeVars == <<isInitialized, isLoggedIn, username>>
fetchVars == <<room, isLoading, fetches>>
ghostRuns == <<closeRun, abnormalRun, retryRun>>
viewVars == <<gameState, myHand, chatMessages, chatInput, betAmount, sent,
              received>>
headerVars == <<logoutPc>>

Mounted == lifecycle = "mounted"

\* the socket the step created, if it created one
Created == IF Len(sock') > Len(sock) THEN Len(sock') ELSE NoSocket

\* ------------------------------------------------------------ game types
\* interface Player
Player(u, bet) ==
  [username |-> u, stack |-> 100, hand |-> <<>>, is_active |-> TRUE,
   current_bet |-> bet]

\* the value null of GameState | null
NoGameState == [shape |-> "null"]

\* interface GameState
GameState(players, turn, status, bet, dealer) ==
  [shape |-> "GameState", players |-> players, community_cards |-> <<>>,
   pot |-> 0, current_turn_username |-> turn, status |-> status,
   current_bet |-> bet, dealer_index |-> dealer, winner_message |-> NoUser]

\* payloads of GameMessage: a string, a GameState, { cards }, or null
StringPayload(s) ==
  [shape |-> "string", text |-> s, state |-> NoGameState, cards |-> <<>>]
StatePayload(g) ==
  [shape |-> "GameState", text |-> "", state |-> g, cards |-> <<>>]
CardsPayload(c) ==
  [shape |-> "cards", text |-> "", state |-> NoGameState, cards |-> c]
NullPayload ==
  [shape |-> "null", text |-> "", state |-> NoGameState, cards |-> <<>>]

\* an object that has none of the fields of GameState
MalformedState == [shape |-> "object"]

\* the value undefined where a string[] is expected
Undefined == <<"undefined">>

\* the payload {}: no players when taken as a GameState, no cards when taken
\* as { cards }
ObjectPayload ==
  [shape |-> "object", text |-> "", state |-> MalformedState,
   cards |-> Undefined]

\* a text frame (event.data): its text and what JSON.parse makes of it.
\* kind "text" is not JSON, "null" is the literal null, "scalar" is a number,
\* string or boolean, "object" is an object with the given type and payload
Frame(raw, kind, type, payload) ==
  [raw |-> raw, kind |-> kind, type |-> type, payload |-> payload]

NoFrame == Frame("", "none", "", NullPayload)

Event(op, sid, code) ==
  [op |-> op, sid |-> sid, code |-> code, ra |-> reconnectAttempt,
   frame |-> NoFrame, rep |-> FALSE]

\* ------------------------------------------------------------- userStore
\* mutant: login stores the name and leaves the flag
StoreLoginNameOnly(u) == /\ username' = u
                         /\ isLoggedIn' = isLoggedIn

StoreLogin(u) == /\ username' = u
                 /\ isLoggedIn' = TRUE

StoreLogout == /\ username' = NoUser
               /\ isLoggedIn' = FALSE

\* ------------------------------------------------------- derived values
Live(s) == sock[s].st \in {"connecting", "open"}

TimersPending ==
  LET RECURSIVE Sum(_)
      Sum(i) == IF i = 0 THEN 0 ELSE sessions[i].timers + Sum(i - 1)
  IN Sum(Len(sessions))

\* ------------------------------------------------------- RoomPage effects
\* mutant: the guard forgets isInitialized
EffectGuardNoInit(i, l, r) == l /\ r # NoRoom

\* if (!isInitialized || !isLoggedIn || !roomId) return;
EffectGuard(i, l, r) == i /\ l /\ r # NoRoom

\* WebSocket.close() without arguments on the socket the closure holds
CloseSocket(ss, s) ==
  IF s = NoSocket THEN ss
  ELSE IF ss[s].st = "open"
       THEN [ss EXCEPT ![s].st = "closing", ![s].code = 1005]
  ELSE IF ss[s].st = "connecting"
       THEN [ss EXCEPT ![s].st = "closing", ![s].code = 1006]
  ELSE ss

\* return () => { reconnectAttempt.current = 5; ws?.close(); }
CleanupAttempt == IF effectOn THEN MaxReconnect ELSE reconnectAttempt
CleanupSock == IF effectOn THEN CloseSocket(sock, effectWs) ELSE sock
CleanupSessions ==
  IF effectOn
  THEN [sessions EXCEPT ![Len(sessions)].live = FALSE,
                        ![Len(sessions)].tornPending =
                            sessions[Len(sessions)].timers > 0]
  ELSE sessions

\* a socket whose close event was delivered: nothing of it is read again
ClosedSocket(e) ==
  [st |-> "closed", room |-> NoRoom, epoch |-> e, code |-> 0, late |-> FALSE]

NewSocket(r, e, late) ==
  [st |-> "connecting", room |-> r, epoch |-> e, code |-> 0, late |-> late]

\* Both effects of RoomPage, run for the dependency values (i, l, r) after the
\* cleanup of the previous run of the WebSocket effect.
RunEffects(i, l, r) ==
  /\ EffectGuard(i, l, r) => Len(sock) < MaxSockets
  /\ reconnectAttempt' = CleanupAttempt
  /\ redirected' = (redirected \/ (i /\ ~l))
  /\ fetches' = IF i /\ l /\ r # NoRoom
                THEN [fetches EXCEPT ![r] = @ + 1] ELSE fetches
  /\ IF EffectGuard(i, l, r)
     THEN /\ connectionStatus' = "Connecting"
          /\ sock' = Append(CleanupSock,
                            NewSocket(r, Len(sessions) + 1, FALSE))
          /\ sessions' = Append(CleanupSessions,
                                [room |-> r, timers |-> 0, live |-> TRUE,
                                 tornPending |-> FALSE, ended |-> FALSE])
          /\ effectOn' = TRUE
          /\ effectWs' = ws
     ELSE /\ connectionStatus' = connectionStatus
          /\ sock' = CleanupSock
          /\ sessions' = CleanupSessions
          /\ effectOn' = FALSE
          /\ effectWs' = NoSocket

\* A render with new store values or a new route parameter: the effects run
\* only when the page is mounted and a dependency changed.
Rerender(i, l, r) ==
  IF Mounted /\ <<i, l, r>> # <<isInitialized, isLoggedIn, roomId>>
  THEN RunEffects(i, l, r)
  ELSE UNCHANGED <<reconnectAttempt, redirected, fetches, connectionStatus,
                   sock, sessions, effectOn, effectWs>>

\* ------------------------------------------------------------ page life
Mount ==
  /\ lifecycle = "rendered"
  /\ lifecycle' = "mounted"
  /\ RunEffects(isInitialized, isLoggedIn, roomId)
  /\ UNCHANGED headerVars
  /\ last' = Event("mount", Created, 0)
  /\ UNCHANGED viewVars
  /\ UNCHANGED <<storeVars, authPc, roomId, room, isLoading, error, ws, navs,
                 ghostRuns>>

Navigate(r) ==
  /\ Mounted
  /\ navs < MaxNav
  /\ r # roomId
  /\ roomId' = r
  /\ navs' = navs + 1
  /\ Rerender(isInitialized, isLoggedIn, r)
  /\ UNCHANGED headerVars
  /\ last' = Event("navigate", Created, 0)
  /\ UNCHANGED viewVars
  /\ UNCHANGED <<storeVars, authPc, lifecycle, room, isLoading, error, ws,
                 ghostRuns>>

Unmount ==
  /\ Mounted
  /\ lifecycle' = "unmounted"
  /\ reconnectAttempt' = CleanupAttempt
  /\ sock' = CleanupSock
  /\ sessions' = CleanupSessions
  /\ effectOn' = FALSE
  /\ effectWs' = NoSocket
  /\ UNCHANGED headerVars
  /\ last' = Event("unmount", NoSocket, 0)
  /\ UNCHANGED viewVars
  /\ UNCHANGED <<storeVars, authPc, roomId, redirected, room, isLoading,
                 error, fetches, ws, connectionStatus, navs, ghostRuns>>

\* ------------------------------------------------------- AuthInitializer
\* GET /api/me resolved: "user" (2xx with sub), "nosub" (2xx without sub),
\* "denied" (non-2xx), "throw" (fetch rejected)
AuthDecide(outcome, u) ==
  /\ authPc = "fetching"
  /\ authPc' = "decided"
  /\ IF outcome = "user" THEN StoreLogin(u)
     ELSE IF outcome = "nosub" THEN UNCHANGED <<username, isLoggedIn>>
     ELSE StoreLogout
  /\ UNCHANGED isInitialized
  /\ Rerender(isInitialized, isLoggedIn', roomId)
  /\ UNCHANGED headerVars
  /\ last' = Event("authDecide", Created, 0)
  /\ UNCHANGED viewVars
  /\ UNCHANGED <<lifecycle, roomId, room, isLoading, error, ws, navs,
                 ghostRuns>>

\* mutant: initialization is marked complete only for a logged-in user
InitializedOnlyIfLoggedIn(l) == l

\* finally { setInitialized(true) }
InitializedAfter(l) == TRUE

AuthFinally ==
  /\ authPc = "decided"
  /\ authPc' = "done"
  /\ isInitialized' = InitializedAfter(isLoggedIn)
  /\ Rerender(isInitialized', isLoggedIn, roomId)
  /\ UNCHANGED headerVars
  /\ last' = Event("authFinally", Created, 0)
  /\ UNCHANGED viewVars
  /\ UNCHANGED <<isLoggedIn, username, lifecycle, roomId, room, isLoading,
                 error, ws, navs, ghostRuns>>

\* handleLogin of the login page: POST /api/login answered 2xx, login(username)
LoginNames == {"alice", ""}

Login(u) ==
  /\ StoreLogin(u)
  /\ Rerender(isInitialized, TRUE, roomId)
  /\ UNCHANGED headerVars
  /\ last' = Event("login", Created, 0)
  /\ UNCHANGED viewVars
  /\ UNCHANGED <<isInitialized, authPc, lifecycle, roomId, room, isLoading,
                 error, ws, navs, ghostRuns>>

\* setInitialized: (isInitialized) => set({ isInitialized })
SetInitialized(b) ==
  /\ isInitialized' = b
  /\ Rerender(b, isLoggedIn, roomId)
  /\ UNCHANGED headerVars
  /\ last' = Event("setInitialized", Created, 0)
  /\ UNCHANGED viewVars
  /\ UNCHANGED <<isLoggedIn, username, authPc, lifecycle, roomId, room,
                 isLoading, error, ws, navs, ghostRuns>>

\* the log-out button of the header
Logout ==
  /\ isLoggedIn
  /\ StoreLogout
  /\ Rerender(isInitialized, FALSE, roomId)
  /\ UNCHANGED headerVars
  /\ last' = Event("logout", Created, 0)
  /\ UNCHANGED viewVars
  /\ UNCHANGED <<isInitialized, authPc, lifecycle, roomId, room, isLoading,
                 error, ws, navs, ghostRuns>>

\* handleLogout of the header: the click sends POST /api/logout
HandleLogout ==
  /\ isLoggedIn
  /\ logoutPc = "idle"
  /\ logoutPc' = "posting"
  /\ last' = Event("logoutClick", NoSocket, 0)
  /\ UNCHANGED viewVars
  /\ UNCHANGED <<storeVars, authPc, lifecycle, roomId, redirected, fetchVars,
                 error, ws, connectionStatus, reconnectAttempt, sock, sessions,
                 effectOn, effectWs, navs, ghostRuns>>

\* the answers to POST /api/logout: a status, or 0 when fetch rejects
LogoutStatuses == {200, 500, 0}

\* mutant: the store is cleared in the try block, after the await
ClearedOnlyIfSent(status) == status # 0

\* finally { logout(); ... } runs whatever the request did
ClearedAfterLogout(status) == TRUE

\* the request settled: catch logs, finally clears the store and assigns
\* window.location.href
LogoutResponse(status) ==
  /\ logoutPc = "posting"
  /\ logoutPc' = "leaving"
  /\ IF ClearedAfterLogout(status)
     THEN /\ StoreLogout
          /\ Rerender(isInitialized, FALSE, roomId)
     ELSE UNCHANGED <<username, isLoggedIn, reconnectAttempt, redirected,
                      fetches, connectionStatus, sock, sessions, effectOn,
                      effectWs>>
  /\ last' = Event("logoutDone", Created, status)
  /\ UNCHANGED viewVars
  /\ UNCHANGED <<isInitialized, authPc, lifecycle, roomId, room, isLoading,
                 error, ws, navs, ghostRuns>>

\* -------------------------------------------------------------- fetchRoom
NoError == "none"

\* the status of the response, 0 when fetch rejected
FetchStatus(outcome) ==
  IF outcome = "ok" THEN 200
  ELSE IF outcome = "notFound" THEN 404
  ELSE IF outcome = "failed" THEN 500
  ELSE 0

\* mutant: every response that is not ok surfaces the generic text
FetchErrorGeneric(outcome) == "RoomFetchFailed"

\* the error text fetchRoom surfaces for a response
FetchError(outcome) ==
  IF outcome = "notFound" THEN "RoomNotFound"
  ELSE IF outcome = "failed" THEN "RoomFetchFailed"
  ELSE "FetchRejected"

\* GET /api/rooms/:id resolved: "ok" (2xx), "notFound" (404), "failed" (any
\* other status), "throw" (fetch rejected)
FetchResponse(r, outcome) ==
  /\ fetches[r] > 0
  /\ fetches' = [fetches EXCEPT ![r] = @ - 1]
  /\ IF Mounted
     THEN /\ room' = IF outcome = "ok" THEN r ELSE room
          /\ error' = IF outcome = "ok" THEN error ELSE FetchError(outcome)
          /\ isLoading' = FALSE
     ELSE UNCHANGED <<room, error, isLoading>>
  /\ UNCHANGED headerVars
  /\ last' = Event("fetch", NoSocket, FetchStatus(outcome))
  /\ UNCHANGED viewVars
  /\ UNCHANGED <<storeVars, authPc, lifecycle, roomId, redirected, ws,
                 connectionStatus, reconnectAttempt, sock, sessions, effectOn,
                 effectWs, navs, ghostRuns>>

\* ------------------------------------------------------ connectWebSocket
\* mutant: reconnecting starts from an empty view
TimerFireResetting(e) ==
  /\ sessions[e].timers > 0
  /\ Len(sock) < MaxSockets
  /\ sessions' = [sessions EXCEPT ![e].timers = @ - 1]
  /\ connectionStatus' = IF Mounted THEN "Connecting" ELSE connectionStatus
  /\ sock' = Append(sock, NewSocket(sessions[e].room, e, ~sessions[e].live))
  /\ gameState' = NoGameState
  /\ myHand' = <<>>
  /\ chatMessages' = <<>>
  /\ UNCHANGED headerVars
  /\ last' = Event("timer", Len(sock) + 1, 0)
  /\ UNCHANGED <<chatInput, betAmount, sent, received>>
  /\ UNCHANGED <<storeVars, authPc, lifecycle, roomId, redirected, fetchVars,
                 error, ws, reconnectAttempt, effectOn, effectWs, navs,
                 ghostRuns>>

\* setTimeout(connectWebSocket, 3000) expired: the closure of session e runs
TimerFire(e) ==
  /\ sessions[e].timers > 0
  /\ Len(sock) < MaxSockets
  /\ sessions' = [sessions EXCEPT ![e].timers = @ - 1]
  /\ connectionStatus' = IF Mounted THEN "Connecting" ELSE connectionStatus
  /\ sock' = Append(sock, NewSocket(sessions[e].room, e, ~sessions[e].live))
  /\ UNCHANGED headerVars
  /\ last' = Event("timer", Len(sock) + 1, 0)
  /\ UNCHANGED viewVars
  /\ UNCHANGED <<storeVars, authPc, lifecycle, roomId, redirected, fetchVars,
                 error, ws, reconnectAttempt, effectOn, effectWs, navs,
                 ghostRuns>>

\* mutant: onopen leaves the counter alone
AttemptKeptOnOpen(k) == k

\* socket.onopen: reconnectAttempt.current = 0
AttemptAfterOpen(k) == 0

OnOpen(s) ==
  /\ sock[s].st = "connecting"
  /\ sock' = [sock EXCEPT ![s].st = "open"]
  /\ connectionStatus' = IF Mounted THEN "Connected" ELSE connectionStatus
  /\ ws' = IF Mounted THEN s ELSE ws
  /\ reconnectAttempt' = AttemptAfterOpen(reconnectAttempt)
  /\ closeRun' = 0
  /\ abnormalRun' = 0
  /\ retryRun' = 0
  /\ UNCHANGED headerVars
  /\ last' = Event("open", s, 0)
  /\ UNCHANGED viewVars
  /\ UNCHANGED <<storeVars, authPc, lifecycle, roomId, redirected, fetchVars,
                 error, sessions, effectOn, effectWs, navs>>

\* mutant: the error handler counts an attempt and schedules the retry itself
OnErrorRetrying(s) ==
  /\ Live(s)
  /\ sock' = [sock EXCEPT ![s].st = "closing", ![s].code = 1006]
  /\ connectionStatus' = IF Mounted THEN "Error" ELSE connectionStatus
  /\ reconnectAttempt' = IF reconnectAttempt < MaxReconnect
                         THEN reconnectAttempt + 1 ELSE reconnectAttempt
  /\ sessions' = [sessions EXCEPT ![sock[s].epoch].timers =
                     IF reconnectAttempt < MaxReconnect THEN @ + 1 ELSE @]
  /\ UNCHANGED headerVars
  /\ last' = Event("error", s, 0)
  /\ UNCHANGED viewVars
  /\ UNCHANGED <<storeVars, authPc, lifecycle, roomId, redirected, fetchVars,
                 error, ws, effectOn, effectWs, navs, ghostRuns>>

\* socket.onerror: the transport failed; its close event follows
OnError(s) ==
  /\ Live(s)
  /\ sock' = [sock EXCEPT ![s].st = "closing", ![s].code = 1006]
  /\ connectionStatus' = IF Mounted THEN "Error" ELSE connectionStatus
  /\ UNCHANGED headerVars
  /\ last' = Event("error", s, 0)
  /\ UNCHANGED viewVars
  /\ UNCHANGED <<storeVars, authPc, lifecycle, roomId, redirected, fetchVars,
                 error, ws, reconnectAttempt, sessions, effectOn, effectWs,
                 navs, ghostRuns>>

\* mutant: the cap is compared with <=
ShouldRetryInclusive(k, code) == k <= MaxReconnect

\* socket.onclose: if (reconnectAttempt.current < 5)
ShouldRetry(k, code) == k < MaxReconnect

\* mutant: the close handler counts every close
AttemptUncapped(k, code) == k + 1

AttemptAfterClose(k, code) == IF ShouldRetry(k, code) THEN k + 1 ELSE k

\* mutant: the close handler schedules the retry twice
TimersDoubled(n, k, code) == IF ShouldRetry(k, code) THEN n + 2 ELSE n

\* mutant: the close handler schedules no timer
TimersNotScheduled(n, k, code) == n

TimersAfterClose(n, k, code) == IF ShouldRetry(k, code) THEN n + 1 ELSE n

\* mutant: setError runs in both branches
ErrorAlwaysOnClose(e, k, code) == "ConnectionLost"

ErrorAfterClose(e, k, code) ==
  IF ShouldRetry(k, code) THEN e ELSE "ConnectionLost"

OnClose(s, c) ==
  /\ \/ sock[s].st = "open" /\ c \in RemoteCloseCodes
     \/ sock[s].st = "closing" /\ c = sock[s].code
  /\ sock' = [sock EXCEPT ![s] = ClosedSocket(sock[s].epoch)]
  /\ connectionStatus' = IF Mounted THEN "Disconnected" ELSE connectionStatus
  /\ reconnectAttempt' = AttemptAfterClose(reconnectAttempt, c)
  /\ sessions' = [sessions EXCEPT
                    ![sock[s].epoch].timers =
                        TimersAfterClose(@, reconnectAttempt, c),
                    ![sock[s].epoch].ended =
                        @ \/ ~ShouldRetry(reconnectAttempt, c)]
  /\ error' = IF Mounted THEN ErrorAfterClose(error, reconnectAttempt, c)
              ELSE error
  /\ closeRun' = closeRun + 1
  /\ abnormalRun' = IF c \in IntentionalCodes THEN 0 ELSE abnormalRun + 1
  /\ retryRun' = retryRun + (TimersAfterClose(0, reconnectAttempt, c))
  /\ UNCHANGED headerVars
  /\ last' = Event("close", s, c)
  /\ UNCHANGED viewVars
  /\ UNCHANGED <<storeVars, authPc, lifecycle, roomId, redirected, fetchVars,
                 ws, effectOn, effectWs, navs>>

\* --------------------------------------------------------- socket.onmessage
\* what in the try block throws: JSON.parse on text that is not JSON,
\* message.type on null, message.payload.cards on a null payload
Throws(f) ==
  \/ f.kind \in {"text", "null"}
  \/ f.kind = "object" /\ f.type = "DealHand" /\ f.payload.shape = "null"

\* the case of the switch the frame takes, "" when it takes none
Case(f) ==
  IF f.kind = "object" /\ f.type \in {"ChatMessage", "GameStateUpdate", "DealHand"}
  THEN f.type ELSE ""

\* mutant: a chat text is put in front of the log
ChatPrepended(f, chat) ==
  IF Throws(f) THEN <<f.raw>> \o chat
  ELSE IF Case(f) = "ChatMessage" THEN <<f.payload.text>> \o chat
  ELSE chat

\* mutant: the catch block drops the frame
ChatAfterNoCatch(f, chat) ==
  IF ~Throws(f) /\ Case(f) = "ChatMessage" THEN Append(chat, f.payload.text)
  ELSE chat

\* case 'ChatMessage' and the catch block
ChatAfter(f, chat) ==
  IF Throws(f) THEN Append(chat, f.raw)
  ELSE IF Case(f) = "ChatMessage" THEN Append(chat, f.payload.text)
  ELSE chat

\* mutant: an update is applied only while no snapshot is held
GameStateKeptIfHeld(f, g) ==
  IF ~Throws(f) /\ Case(f) = "GameStateUpdate" /\ g = NoGameState
  THEN f.payload.state ELSE g

\* case 'GameStateUpdate'
GameStateAfter(f, g) ==
  IF ~Throws(f) /\ Case(f) = "GameStateUpdate" THEN f.payload.state ELSE g

\* mutant: a snapshot update clears the hand
HandClearedByUpdate(f, h) ==
  IF ~Throws(f) /\ Case(f) = "DealHand" THEN f.payload.cards
  ELSE IF Case(f) = "GameStateUpdate" THEN <<>>
  ELSE h

\* case 'DealHand'
HandAfter(f, h) ==
  IF ~Throws(f) /\ Case(f) = "DealHand" THEN f.payload.cards ELSE h

OnMessage(s, f) ==
  /\ s \in 1..Len(sock)
  /\ sock[s].st = "open"
  /\ received' = received + 1
  /\ chatMessages' = IF Mounted THEN ChatAfter(f, chatMessages)
                     ELSE chatMessages
  /\ gameState' = IF Mounted THEN GameStateAfter(f, gameState) ELSE gameState
  /\ myHand' = IF Mounted THEN HandAfter(f, myHand) ELSE myHand
  /\ UNCHANGED headerVars
  /\ last' = [Event("message", s, 0) EXCEPT
                !.frame = f, !.rep = (last.op = "message" /\ last.frame = f)]
  /\ UNCHANGED <<chatInput, betAmount, sent>>
  /\ UNCHANGED <<storeVars, authPc, lifecycle, roomId, redirected, fetchVars,
                 error, ws, connectionStatus, reconnectAttempt, sock, sessions,
                 effectOn, effectWs, navs, ghostRuns>>

\* ------------------------------------------------- what the page derives
\* the JavaScript remainder a % b for b > 0: it has the sign of a
JsRem(a, b) == IF a >= 0 THEN a % b ELSE 0 - ((0 - a) % b)

\* the seats of a snapshot, counted from 0 as players.map((p, index) => ...)
Seats(g) == 0..(Len(g.players) - 1)

\* gameState?.players.find(p => p.username === username): the seat of the
\* first such player, -1 when find returns undefined
MySeat(g, u) ==
  IF g = NoGameState THEN -1
  ELSE IF \E i \in Seats(g) : g.players[i + 1].username = u
       THEN CHOOSE i \in Seats(g) :
              /\ g.players[i + 1].username = u
              /\ \A j \in Seats(g) : g.players[j + 1].username = u => i <= j
       ELSE -1

\* mutant: the turn condition without && myPlayerState
IsMyTurnUnseated(g, u) ==
  /\ g # NoGameState
  /\ g.current_turn_username = u

\* gameState && gameState.current_turn_username === username && myPlayerState
IsMyTurn(g, u) ==
  /\ g # NoGameState
  /\ g.current_turn_username = u
  /\ MySeat(g, u) # -1

\* myPlayerState, defined when MySeat is not -1
MyPlayerState(g, u) == g.players[MySeat(g, u) + 1]

\* mutant: the labels are told apart with <=
CallLabelInclusive(g, u) ==
  IF MyPlayerState(g, u).current_bet <= g.current_bet THEN "Call" ELSE "Check"

\* myPlayerState.current_bet < gameState.current_bet ? Call (n) : Check
CallLabel(g, u) ==
  IF MyPlayerState(g, u).current_bet < g.current_bet THEN "Call" ELSE "Check"

\* the amount shown on the Call button: ({gameState.current_bet})
CallAmount(g) == g.current_bet

\* const isDealer = index === gameState.dealer_index
IsDealer(g, index) == index = g.dealer_index

\* const isSB = index === (gameState.dealer_index + 1) % players.length
IsSB(g, index) == index = JsRem(g.dealer_index + 1, Len(g.players))

\* mutant: the big blind seat without the remainder
IsBBUnwrapped(g, index) == index = g.dealer_index + 2

\* const isBB = index === (gameState.dealer_index + 2) % players.length
IsBB(g, index) == index = JsRem(g.dealer_index + 2, Len(g.players))

\* mutant: a hand is listed whenever it is not empty
HandShownAnyStatus(g, index) == Len(g.players[index + 1].hand) > 0

\* gameState.status === 'Showdown' && p.hand.length > 0
HandShown(g, index) ==
  g.status = "Showdown" /\ Len(g.players[index + 1].hand) > 0

\* the cards listed for a seat: [Hand: ...] or nothing
HandText(g, index) ==
  IF HandShown(g, index) THEN g.players[index + 1].hand ELSE <<>>

\* the render throws a TypeError: gameState?.players.find(...) on an object
\* without players, myHand.join(', ') on undefined
RenderThrows(g, h) ==
  \/ g # NoGameState /\ g.shape # "GameState"
  \/ h = Undefined

\* [...chatMessages].reverse(): the log as listed, most recent first
ChatShown(chat) == [i \in 1..Len(chat) |-> chat[Len(chat) + 1 - i]]

\* everything the render derives from the snapshot and the local username
View(g, u) ==
  [mySeat |-> MySeat(g, u),
   myTurn |-> IsMyTurn(g, u),
   dealer |-> IF g = NoGameState THEN {} ELSE {i \in Seats(g) : IsDealer(g, i)},
   sb |-> IF g = NoGameState THEN {} ELSE {i \in Seats(g) : IsSB(g, i)},
   bb |-> IF g = NoGameState THEN {} ELSE {i \in Seats(g) : IsBB(g, i)}]

\* -------------------------------------------------------- what is on screen
\* render returns the room view only past the three early returns
PageShown ==
  /\ Mounted
  /\ ~(isLoading \/ ~isInitialized)
  /\ room # NoRoom

\* gameState?.status === status
StatusIs(status) == gameState # NoGameState /\ gameState.status = status

\* ------------------------------------------------------------ user actions
\* a frame written with ws.send(JSON.stringify(message)) on socket s
Outbound(s, type, action, amount, text) ==
  [sid |-> s, type |-> type, action |-> action, amount |-> amount,
   text |-> text]

\* { type: 'PlayerAction', payload: action }; amount -1 stands for no amount
PlayerAction(s, action, amount) ==
  Outbound(s, "PlayerAction", action, amount, "")

\* mutant: any socket the page holds is written to
CanSendIfHeld(s) == s # NoSocket

\* ws?.readyState === WebSocket.OPEN
CanSend(s) == s # NoSocket /\ sock[s].st = "open"

\* if (ws?.readyState === WebSocket.OPEN) ws.send(...)
SentAfter(out, frame) == IF CanSend(ws) THEN Append(out, frame) ELSE out

UserStep(op) ==
  /\ UNCHANGED headerVars
  /\ last' = Event(op, ws, 0)
  /\ UNCHANGED <<gameState, myHand, chatMessages, received>>
  /\ UNCHANGED <<storeVars, authPc, lifecycle, roomId, redirected, fetchVars,
                 error, ws, connectionStatus, reconnectAttempt, sock, sessions,
                 effectOn, effectWs, navs, ghostRuns>>

HandleStartGame ==
  /\ PageShown
  /\ StatusIs("Waiting")
  /\ sent' = SentAfter(sent, PlayerAction(ws, "StartGame", -1))
  /\ UNCHANGED <<chatInput, betAmount>>
  /\ UserStep("startGame")

HandleNextHand ==
  /\ PageShown
  /\ StatusIs("Showdown")
  /\ sent' = SentAfter(sent, PlayerAction(ws, "NextHand", -1))
  /\ UNCHANGED <<chatInput, betAmount>>
  /\ UserStep("nextHand")

\* the buttons of the action area: Fold, and Call under either label
HandlePlayerAction(action) ==
  /\ PageShown
  /\ IsMyTurn(gameState, username)
  /\ sent' = SentAfter(sent, PlayerAction(ws, action, -1))
  /\ UNCHANGED <<chatInput, betAmount>>
  /\ UserStep("action")

\* onChange of the amount input
SetBetAmount(n) ==
  /\ PageShown
  /\ IsMyTurn(gameState, username)
  /\ betAmount' = n
  /\ UNCHANGED <<chatInput, sent>>
  /\ UserStep("betInput")

\* the Bet / Raise button
HandleBet ==
  /\ PageShown
  /\ IsMyTurn(gameState, username)
  /\ sent' = SentAfter(sent, PlayerAction(ws, "Bet", betAmount))
  /\ UNCHANGED <<chatInput, betAmount>>
  /\ UserStep("bet")

\* onChange of the chat input
SetChatInput(text) ==
  /\ PageShown
  /\ chatInput' = text
  /\ UNCHANGED <<betAmount, sent>>
  /\ UserStep("chatInput")

\* what can be typed into the chat input
ChatTexts == {"", " ", "hi", " hi "}

\* String.prototype.trim on these texts
Trim(text) ==
  IF text \in {"", " "} THEN ""
  ELSE IF text \in {"hi", " hi "} THEN "hi"
  ELSE text

\* mutant: only the empty input is refused
TrimmedNonEmpty(text) == text # ""

\* chatInput.trim() is truthy
Trimmed(text) == Trim(text) # ""

\* onSubmit of the chat form
HandleSendMessage ==
  /\ PageShown
  /\ sent' = IF Trimmed(chatInput)
             THEN SentAfter(sent, Outbound(ws, "ChatMessage", "", -1, chatInput))
             ELSE sent
  /\ chatInput' = IF CanSend(ws) /\ Trimmed(chatInput) THEN "" ELSE chatInput
  /\ UNCHANGED betAmount
  /\ UserStep("chat")

\* ---------------------------------------------------------- specification
Init ==
  /\ isInitialized = FALSE
  /\ isLoggedIn = FALSE
  /\ username = NoUser
  /\ authPc = "fetching"
  /\ lifecycle = "rendered"
  /\ roomId \in {NoRoom, "r1"}
  /\ redirected = FALSE
  /\ room = NoRoom
  /\ isLoading = TRUE
  /\ error = NoError
  /\ fetches = [r \in Rooms |-> 0]
  /\ ws = NoSocket
  /\ connectionStatus = "Connecting"
  /\ reconnectAttempt = 0
  /\ sock = <<>>
  /\ sessions = <<>>
  /\ effectOn = FALSE
  /\ effectWs = NoSocket
  /\ navs = 0
  /\ last = [op |-> "init", sid |-> NoSocket, code |-> 0, ra |-> 0,
             frame |-> NoFrame, rep |-> FALSE]
  /\ closeRun = 0
  /\ abnormalRun = 0
  /\ retryRun = 0
  /\ gameState = NoGameState
  /\ myHand = <<>>
  /\ chatMessages = <<>>
  /\ chatInput = ""
  /\ betAmount = 10
  /\ sent = <<>>
  /\ received = 0
  /\ logoutPc = "idle"

Next ==
  \/ Mount
  \/ Unmount
  \/ \E o \in {"user", "nosub", "denied", "throw"}, u \in Users :
       AuthDecide(o, u)
  \/ AuthFinally
  \/ Logout
  \/ \E r \in Rooms, o \in {"ok", "notFound", "failed", "throw"} :
       FetchResponse(r, o)
  \/ \E e \in 1..Len(sessions) : TimerFire(e)
  \/ \E s \in 1..Len(sock) : OnOpen(s)
  \/ \E s \in 1..Len(sock) : OnError(s)
  \/ \E s \in 1..Len(sock), c \in RemoteCloseCodes \cup {1005} : OnClose(s, c)

\* one visit of the page of one room
Spec == Init /\ [][Next]_vars

\* the reconnect timer of setTimeout expires
FairSpec == Spec /\ WF_vars(\E e \in 1..Len(sessions) : TimerFire(e))

\* GET /api/me settles and the continuation of checkAuthStatus runs
AuthSpec ==
  /\ Spec
  /\ WF_vars(\E o \in {"user", "nosub", "denied", "throw"}, u \in Users :
               AuthDecide(o, u))
  /\ WF_vars(AuthFinally)

\* the route parameter may change under the mounted page
NextNav == Next \/ \E r \in Rooms : Navigate(r)

SpecNav == Init /\ [][NextNav]_vars

\* ------------------------------------- one visit with the log-out request
LogoutSockets == 2

NextLogout ==
  \/ Mount
  \/ Unmount
  \/ \E o \in {"user", "nosub", "denied", "throw"}, u \in Users :
       AuthDecide(o, u)
  \/ AuthFinally
  \/ HandleLogout
  \/ \E status \in LogoutStatuses : LogoutResponse(status)
  \/ \E r \in Rooms, o \in {"ok", "notFound", "failed", "throw"} :
       FetchResponse(r, o)
  \/ \E e \in 1..Len(sessions) : TimerFire(e) /\ Len(sock') <= LogoutSockets
  \/ \E s \in 1..Len(sock) : OnOpen(s)
  \/ \E s \in 1..Len(sock) : OnError(s)
  \/ \E s \in 1..Len(sock), c \in RemoteCloseCodes \cup {1005} : OnClose(s, c)

SpecLogout == Init /\ [][NextLogout]_vars

\* ------------------------- the store called in any order beside the page
StoreSockets == 2

NextStore ==
  \/ Mount
  \/ Unmount
  \/ \E o \in {"user", "nosub", "denied", "throw"}, u \in Users :
       AuthDecide(o, u)
  \/ AuthFinally
  \/ \E u \in LoginNames : Login(u) /\ Len(sock') <= StoreSockets
  \/ Logout /\ Len(sock') <= StoreSockets
  \/ \E b \in BOOLEAN : SetInitialized(b) /\ Len(sock') <= StoreSockets
  \/ \E e \in 1..Len(sessions) : TimerFire(e) /\ Len(sock') <= StoreSockets
  \/ \E s \in 1..Len(sock) : OnOpen(s)
  \/ \E s \in 1..Len(sock), c \in RemoteCloseCodes \cup {1005} : OnClose(s, c)

SpecStore == Init /\ [][NextStore]_vars

\* ------------------------------------------- a page that is connected
\* the page after AuthInitializer finished with a user, the room was fetched
\* and the first socket opened
InitConnected ==
  /\ isInitialized = TRUE
  /\ isLoggedIn = TRUE
  /\ username = "alice"
  /\ authPc = "done"
  /\ lifecycle = "mounted"
  /\ roomId = "r1"
  /\ redirected = FALSE
  /\ room = "r1"
  /\ isLoading = FALSE
  /\ error = NoError
  /\ fetches = [r \in Rooms |-> 0]
  /\ ws = 1
  /\ connectionStatus = "Connected"
  /\ reconnectAttempt = 0
  /\ sock = <<[NewSocket("r1", 1, FALSE) EXCEPT !.st = "open"]>>
  /\ sessions = <<[room |-> "r1", timers |-> 0, live |-> TRUE,
                   tornPending |-> FALSE, ended |-> FALSE]>>
  /\ effectOn = TRUE
  /\ effectWs = NoSocket
  /\ navs = 0
  /\ last = [op |-> "open", sid |-> 1, code |-> 0, ra |-> 0,
             frame |-> NoFrame, rep |-> FALSE]
  /\ closeRun = 0
  /\ abnormalRun = 0
  /\ retryRun = 0
  /\ gameState = NoGameState
  /\ myHand = <<>>
  /\ chatMessages = <<>>
  /\ chatInput = ""
  /\ betAmount = 10
  /\ sent = <<>>
  /\ received = 0
  /\ logoutPc = "idle"

\* the same page while its first socket is still connecting
InitShown ==
  /\ isInitialized = TRUE
  /\ isLoggedIn = TRUE
  /\ username = "alice"
  /\ authPc = "done"
  /\ lifecycle = "mounted"
  /\ roomId = "r1"
  /\ redirected = FALSE
  /\ room = "r1"
  /\ isLoading = FALSE
  /\ error = NoError
  /\ fetches = [r \in Rooms |-> 0]
  /\ ws = NoSocket
  /\ connectionStatus = "Connecting"
  /\ reconnectAttempt = 0
  /\ sock = <<NewSocket("r1", 1, FALSE)>>
  /\ sessions = <<[room |-> "r1", timers |-> 0, live |-> TRUE,
                   tornPending |-> FALSE, ended |-> FALSE]>>
  /\ effectOn = TRUE
  /\ effectWs = NoSocket
  /\ navs = 0
  /\ last = [op |-> "fetch", sid |-> NoSocket, code |-> 200, ra |-> 0,
             frame |-> NoFrame, rep |-> FALSE]
  /\ closeRun = 0
  /\ abnormalRun = 0
  /\ retryRun = 0
  /\ gameState = NoGameState
  /\ myHand = <<>>
  /\ chatMessages = <<>>
  /\ chatInput = ""
  /\ betAmount = 10
  /\ sent = <<>>
  /\ received = 0
  /\ logoutPc = "idle"

\* what the connection of such a page can do next
ConnectionStep(cap) ==
  \/ Unmount
  \/ Logout
  \/ \E e \in 1..Len(sessions) : TimerFire(e) /\ Len(sock') <= cap
  \/ \E s \in 1..Len(sock) : OnOpen(s)
  \/ \E s \in 1..Len(sock) : OnError(s)
  \/ \E s \in 1..Len(sock), c \in RemoteCloseCodes \cup {1005} : OnClose(s, c)

\* ----------------------------------------------- inbound frames of a room
MaxFrames == 2
MsgSockets == 2

Alice == Player("alice", 0)
Bob == Player("bob", 10)

Waiting == GameState(<<Alice>>, NoUser, "Waiting", 0, 0)
Playing == GameState(<<Alice, Bob>>, "alice", "Playing", 10, 1)

MsgFrames ==
  { Frame("hello", "text", "", NullPayload),
    Frame("null", "null", "", NullPayload),
    Frame("42", "scalar", "", NullPayload),
    Frame("{payload:hi}", "object", "", StringPayload("hi")),
    Frame("{type:Ping}", "object", "Ping", NullPayload),
    Frame("{type:ChatMessage,payload:hello}", "object", "ChatMessage",
          StringPayload("hello")),
    Frame("{type:GameStateUpdate,payload:Waiting}", "object",
          "GameStateUpdate", StatePayload(Waiting)),
    Frame("{type:GameStateUpdate,payload:Playing}", "object",
          "GameStateUpdate", StatePayload(Playing)),
    Frame("{type:DealHand,payload:{cards:[As,Kd]}}", "object", "DealHand",
          CardsPayload(<<"As", "Kd">>)),
    Frame("{type:DealHand,payload:{cards:[]}}", "object", "DealHand",
          CardsPayload(<<>>)),
    Frame("{type:DealHand,payload:null}", "object", "DealHand", NullPayload) }

NextMsg ==
  \/ \E s \in 1..Len(sock), f \in MsgFrames :
       received < MaxFrames /\ OnMessage(s, f)
  \/ ConnectionStep(MsgSockets)

SpecMsg == InitConnected /\ [][NextMsg]_vars

\* ---------------------------------------------- a player acting in a room
MaxSent == 1
MaxUpdates == 1
ActSockets == 2

BetAmounts == {10, 20}
ChatInputs == {"hi"}

Showdown == GameState(<<Alice, Bob>>, NoUser, "Showdown", 0, 1)

Checked == GameState(<<Alice, Player("bob", 0)>>, "alice", "Playing", 0, 1)

ActFrames ==
  { Frame("{type:GameStateUpdate,payload:Checked}", "object",
          "GameStateUpdate", StatePayload(Checked)),
    Frame("{type:GameStateUpdate,payload:Waiting}", "object",
          "GameStateUpdate", StatePayload(Waiting)),
    Frame("{type:GameStateUpdate,payload:Playing}", "object",
          "GameStateUpdate", StatePayload(Playing)),
    Frame("{type:GameStateUpdate,payload:Showdown}", "object",
          "GameStateUpdate", StatePayload(Showdown)) }

NextAct ==
  \/ \E s \in 1..Len(sock), f \in ActFrames :
       received < MaxUpdates /\ OnMessage(s, f)
  \/ HandleStartGame /\ Len(sent') <= MaxSent
  \/ HandleNextHand /\ Len(sent') <= MaxSent
  \/ \E a \in {"Fold", "Call"} :
       HandlePlayerAction(a) /\ Len(sent') <= MaxSent
  \/ \E n \in BetAmounts : SetBetAmount(n)
  \/ HandleBet /\ Len(sent') <= MaxSent
  \/ \E text \in ChatInputs : SetChatInput(text)
  \/ HandleSendMessage /\ Len(sent') <= MaxSent
  \/ ConnectionStep(ActSockets)

SpecAct == InitShown /\ [][NextAct]_vars

\* ------------------------------------------------- the chat form of a room
NextChat ==
  \/ \E text \in ChatTexts : SetChatInput(text)
  \/ HandleSendMessage /\ Len(sent') <= MaxSent
  \/ ConnectionStep(ActSockets)

SpecChat == InitShown /\ [][NextChat]_vars

\* --------------------------------- frames that do not have the declared shape
ShapeFrames ==
  MsgFrames \cup
  { Frame("{type:GameStateUpdate,payload:{}}", "object", "GameStateUpdate",
          ObjectPayload),
    Frame("{type:DealHand,payload:{}}", "object", "DealHand", ObjectPayload) }

\* React removes the page whose render threw
RenderError ==
  /\ Mounted
  /\ RenderThrows(gameState, myHand)
  /\ Unmount

NextShape ==
  \/ \E s \in 1..Len(sock), f \in ShapeFrames :
       received < MaxFrames /\ OnMessage(s, f)
  \/ RenderError
  \/ ConnectionStep(MsgSockets)

SpecShape == InitConnected /\ [][NextShape]_vars

\* -------------------------------------------- the page changing the room
RoomSockets == 3

\* the connection of a shown page whose roomId can change; the request of
\* fetchRoom stays in flight
NextRooms ==
  \/ \E r \in Rooms : Navigate(r) /\ Len(sock') <= RoomSockets
  \/ ConnectionStep(RoomSockets)

SpecRooms == InitShown /\ [][NextRooms]_vars

\* ------------------------------------- a player after a change of the room
CarrySockets == 2

RoomFrames ==
  { Frame("{type:ChatMessage,payload:hello}", "object", "ChatMessage",
          StringPayload("hello")),
    Frame("{type:DealHand,payload:{cards:[As,Kd]}}", "object", "DealHand",
          CardsPayload(<<"As", "Kd">>)) }

NextCarry ==
  \/ \E r \in Rooms : Navigate(r) /\ Len(sock') <= CarrySockets
  \/ \E s \in 1..Len(sock), f \in RoomFrames :
       received < MaxUpdates /\ OnMessage(s, f)
  \/ SetChatInput("hi")
  \/ HandleSendMessage /\ Len(sent') <= MaxSent
  \/ \E e \in 1..Len(sessions) : TimerFire(e) /\ Len(sock') <= CarrySockets
  \/ \E s \in 1..Len(sock) : OnOpen(s)
  \/ \E s \in 1..Len(sock), c \in {1005, 1006} : OnClose(s, c)

SpecCarry == InitShown /\ [][NextCarry]_vars

\* ------------------------------------------------ the tables a page can show
MaxPlayers == 4

OtherNames == <<"bob", "carol", "dave", "erin", "frank", "grace">>

\* a snapshot of n players with the local user at seat self (counted from 1,
\* 0 for a spectator), the dealer at index dealer and the turn of turn
Table(n, self, dealer, turn) ==
  GameState([i \in 1..n |-> IF i = self THEN Alice
                            ELSE Player(OtherNames[i], 0)],
            turn, "Playing", 0, dealer)

Tables ==
  { Table(n, self, dealer, turn) :
      n \in 1..MaxPlayers, self \in 0..MaxPlayers, dealer \in 0..(MaxPlayers - 1),
      turn \in {NoUser, "alice", "bob"} }

\* snapshots of two players in each status, the second with or without cards
HandTables ==
  { GameState(<<Alice, [Bob EXCEPT !.hand = h]>>, NoUser, status, 0, 0) :
      status \in {"Waiting", "Playing", "Showdown"},
      h \in {<<>>, <<"Qs", "Qh">>} }

ViewFrames ==
  { Frame("{type:GameStateUpdate,payload:Table}", "object", "GameStateUpdate",
          StatePayload(g)) :
      g \in {t \in Tables : t.dealer_index < Len(t.players)} \cup HandTables }

NextView ==
  \/ \E s \in 1..Len(sock), f \in ViewFrames :
       received < MaxUpdates /\ OnMessage(s, f)
  \/ Logout

SpecView == InitConnected /\ [][NextView]_vars

\* ================================================================ claims
Sockets == 1..Len(sock)
Sessions == 1..Len(sessions)
TeardownOps == {"unmount", "logout"}
EffectOps == {"mount", "authDecide", "authFinally", "logout"}

\* C1: when the teardown of a session ran while a reconnect timer of the
\* session was pending, no WebSocket is created for that session afterwards.
C1_NoOpenAfterTeardown ==
  \A s \in Sockets :
    sock[s].st # "closed" =>
      ~(sock[s].late /\ sessions[sock[s].epoch].tornPending)

\* C2: right after a session teardown no transport of the page is connecting
\* or open (the teardown force-closed the session's current transport).
C2_TeardownClosesTransport ==
  last.op \in TeardownOps => \A s \in Sockets : ~Live(s)

\* C3 as stated: after 5 consecutive closes without an open the manager is
\* terminated: the fatal error is surfaced and no retry timer is pending.
C3_TerminatedAfterFiveCloses ==
  (Mounted /\ last.op = "close" /\ closeRun = 5 /\ abnormalRun = 5) =>
    (error = "ConnectionLost" /\ TimersPending = 0)

\* C3 amended: the 6th consecutive close without an open (the first transport
\* and its 5 retries) surfaces the fatal error and schedules no retry, its
\* session has no retry timer pending afterwards, and never more than 5
\* retries are scheduled without an intervening open.
C3_TerminatedAfterSixCloses ==
  /\ retryRun <= MaxReconnect
  /\ (last.op = "close" /\ closeRun >= MaxReconnect + 1) =>
       /\ reconnectAttempt = last.ra
       /\ sessions[sock[last.sid].epoch].timers = 0
       /\ Mounted => error = "ConnectionLost"

\* six abnormal closes in a row on a mounted page
C3_SixthCloseSeen ==
  Mounted /\ last.op = "close" /\ closeRun = MaxReconnect + 1
  /\ abnormalRun = MaxReconnect + 1 /\ error = "ConnectionLost"

\* C4: a close with code 1000 or 1001 schedules no reconnect: the counter is
\* unchanged and no retry timer is pending for the session of the socket.
C4_IntentionalCloseNoRetry ==
  (last.op = "close" /\ last.code \in IntentionalCodes) =>
    /\ reconnectAttempt = last.ra
    /\ sessions[sock[last.sid].epoch].timers = 0

\* C5: every open event leaves the reconnect-attempt counter at 0, whatever
\* its value was before, and the run of retries starts again from none.
C5_OpenResetsCounter ==
  last.op = "open" => (reconnectAttempt = 0 /\ retryRun = 0)

\* an open event that found the counter between 1 and 4
C5_OpenAfterRetries ==
  last.op = "open" /\ last.ra \in 1..(MaxReconnect - 1) /\ reconnectAttempt = 0

\* C6: in the state right after an open event the page's error is empty.
C6_OpenClearsError ==
  (Mounted /\ last.op = "open") => error = NoError

\* C7: on a mounted page the fatal error is surfaced exactly by a close event
\* that finds reconnectAttempt >= 5; that close schedules no retry, and its
\* session has no pending timer and no transport from then on.
C7_FatalExactlyAtCap ==
  /\ [][(error' = "ConnectionLost" /\ error # "ConnectionLost") =>
          (last'.op = "close" /\ reconnectAttempt >= MaxReconnect)]_vars
  /\ [](  (Mounted /\ last.op = "close" /\ last.ra >= MaxReconnect) =>
            (error = "ConnectionLost" /\ reconnectAttempt = last.ra))
  /\ [](\A e \in Sessions :
          sessions[e].ended =>
            /\ sessions[e].timers = 0
            /\ \A s \in Sockets :
                 sock[s].epoch = e => sock[s].st = "closed")

\* a close that found the counter at the cap, on a mounted page
C7_FatalSurfaced ==
  Mounted /\ last.op = "close" /\ last.ra >= MaxReconnect
  /\ error = "ConnectionLost" /\ sessions[sock[last.sid].epoch].ended

\* C8: a close with an abnormal code that finds reconnectAttempt < 5 adds
\* exactly one to the counter and schedules exactly one timer; a pending
\* timer eventually fires and creates a connecting transport for the room of
\* its session (status Connecting on a mounted page), as long as the bound on
\* the number of sockets leaves room for one.
C8_TimerPending == TimersPending > 0

C8_Reopened ==
  \/ Len(sock) >= MaxSockets
  \/ /\ last.op = "timer"
     /\ sock[last.sid].st = "connecting"
     /\ sock[last.sid].room = sessions[sock[last.sid].epoch].room
     /\ Mounted => connectionStatus = "Connecting"

C8_AbnormalCloseRetries ==
  /\ [][(last'.op = "close" /\ sock' # sock
           /\ last'.code \notin IntentionalCodes
           /\ reconnectAttempt < MaxReconnect) =>
          (/\ reconnectAttempt' = reconnectAttempt + 1
           /\ TimersPending' = TimersPending + 1)]_vars
  /\ (C8_TimerPending ~> C8_Reopened)

\* a timer scheduled by a close has fired on a mounted page
C8_RetryOpened ==
  /\ last.op = "timer"
  /\ closeRun >= 1
  /\ sock[last.sid].st = "connecting"
  /\ Mounted /\ connectionStatus = "Connecting"

\* C9: a WebSocket exists only once auth initialization has completed, and
\* the effect creates the first transport of a session only for a logged-in
\* user and a present room id.
C9_NoOpenBeforeAuth ==
  /\ Len(sock) > 0 => isInitialized
  /\ (last.op \in EffectOps /\ last.sid # NoSocket) =>
       (isInitialized /\ isLoggedIn /\ roomId # NoRoom)

\* the effect connected when auth initialization completed
C9_ConnectedOnAuth ==
  last.op = "authFinally" /\ last.sid # NoSocket /\ sock[last.sid].st = "connecting"

\* C10: once auth is initialized, an unauthenticated user of a mounted page
\* is redirected and no transport of the page is connecting or open or is
\* opened later; every admitted session starts exactly one initial transport.
C10_GuardTearsDownAndAdmitsOnce ==
  /\ (Mounted /\ isInitialized /\ ~isLoggedIn) =>
       (redirected /\ \A s \in Sockets : ~Live(s))
  /\ (last.op \in EffectOps /\ last.sid # NoSocket) =>
       Cardinality({s \in Sockets : sock[s].epoch = Len(sessions)}) = 1

\* a step that delivered a frame to the mounted page
Delivered == received' = received + 1 /\ Mounted

\* C11: a frame whose text is not JSON is appended verbatim as the last chat
\* entry by the handler, which completes; the snapshot and the private hand
\* stay as they were.
C11_MalformedAppended ==
  [][(Delivered /\ last'.frame.kind = "text") =>
       /\ chatMessages' = Append(chatMessages, last'.frame.raw)
       /\ gameState' = gameState
       /\ myHand' = myHand]_vars

C11_MalformedSeen ==
  /\ Mounted
  /\ last.op = "message"
  /\ last.frame.kind = "text"
  /\ gameState # NoGameState
  /\ chatMessages # <<>>
  /\ chatMessages[Len(chatMessages)] = last.frame.raw

\* C12: no frame is discarded silently: a frame that takes none of the three
\* cases of the switch (not JSON, null, a scalar, an object with an unknown
\* or missing type) is appended to the chat log as its raw text.
C12_NoFrameDiscarded ==
  [][(Delivered /\ Case(last'.frame) = "") =>
       chatMessages' = Append(chatMessages, last'.frame.raw)]_vars

\* C13: a GameStateUpdate replaces the snapshot by its payload whatever the
\* snapshot was before, so applying the same payload twice gives the state that
\* applying it once gives, and what the page derives afterwards is what it
\* derives from the payload and the local username.
C13_SnapshotReplaced ==
  [][(Delivered /\ Case(last'.frame) = "GameStateUpdate") =>
       /\ gameState' = last'.frame.payload.state
       /\ View(gameState', username') = View(last'.frame.payload.state, username)
       /\ (last'.rep => gameState' = gameState)]_vars

C13_AppliedTwice ==
  /\ Mounted
  /\ last.op = "message"
  /\ last.rep
  /\ Case(last.frame) = "GameStateUpdate"
  /\ gameState = last.frame.payload.state

\* C14: the private hand changes only when a DealHand frame is handled, which
\* replaces it in full by the cards of the payload; snapshot updates, chat
\* frames and every other step leave it as the last DealHand set it.
C14_HandOnlyByDeal ==
  /\ [][myHand' # myHand =>
          /\ Delivered
          /\ Case(last'.frame) = "DealHand"]_vars
  /\ [][(Delivered /\ Case(last'.frame) = "DealHand" /\ ~Throws(last'.frame)) =>
          myHand' = last'.frame.payload.cards]_vars

C14_HandKept ==
  /\ Mounted
  /\ last.op = "message"
  /\ Case(last.frame) = "GameStateUpdate"
  /\ myHand = <<"As", "Kd">>

\* the frame a step wrote to a socket
Written == sent'[Len(sent')]

UserOps == {"startGame", "nextHand", "action", "bet", "chat"}

\* C15: a Bet whose amount is below twice the current bet of the snapshot is
\* rejected locally: no Bet frame with such an amount is written to a socket.
C15_BetBelowMinimumRejected ==
  [][(sent' # sent /\ Written.action = "Bet") =>
       Written.amount >= 2 * gameState.current_bet]_vars

\* C16: a frame is written only by a user action and only to the socket the
\* page holds while that socket is open; an action requested in any other
\* state writes nothing, and no later step writes a frame in its place.
C16_SendOnlyWhileOpen ==
  [][/\ sent' # sent =>
          /\ last'.op \in UserOps
          /\ ws # NoSocket
          /\ sock[ws].st = "open"
          /\ sent' = Append(sent, Written)
          /\ Written.sid = ws
     /\ (last'.op \in UserOps /\ ~(ws # NoSocket /\ sock[ws].st = "open")) =>
          sent' = sent]_vars

C16_ActionDropped ==
  /\ last.op = "action"
  /\ ws # NoSocket
  /\ sock[ws].st \in {"closing", "closed"}
  /\ Len(sent) = 1
  /\ sent[1].type = "ChatMessage"

\* the sockets of session e that are connecting or open
Transports(e) ==
  {s \in Sockets : sock[s].epoch = e /\ sock[s].st \in {"connecting", "open"}}

\* C17: a session never has two sockets connecting or open, and a socket is
\* created for a session only when every earlier socket of that session is
\* closed; so it is under retries, and for the session that a change of the
\* room id starts after the teardown of the one before.
C17_OneTransportPerSession ==
  /\ [](\A e \in Sessions : Cardinality(Transports(e)) <= 1)
  /\ [][Len(sock') > Len(sock) =>
          \A s \in Sockets :
            sock[s].epoch = sock'[Len(sock')].epoch => sock[s].st = "closed"]_vars

C17_RetryInNewSession ==
  /\ Len(sessions) = 2
  /\ last.op = "timer"
  /\ sock[last.sid].epoch = 2
  /\ Transports(2) = {last.sid}
  /\ Transports(1) # {}

\* C18: a change of the room id carries nothing over: the new session starts
\* with no snapshot, an empty hand and an empty chat log; no frame is written
\* to a socket of another room or of an earlier session; a frame arriving on a
\* socket of an earlier session changes nothing of what is shown.
C18_NothingCarriedOver ==
  /\ [][navs' > navs =>
          /\ gameState' = NoGameState
          /\ myHand' = <<>>
          /\ chatMessages' = <<>>]_vars
  /\ [][sent' # sent =>
          /\ sock[Written.sid].room = roomId
          /\ sock[Written.sid].epoch = Len(sessions)]_vars
  /\ [][(received' > received /\ sock[last'.sid].epoch < Len(sessions)) =>
          UNCHANGED <<gameState, myHand, chatMessages>>]_vars

\* someone with the local username sits at the table of the snapshot
Seated ==
  /\ gameState # NoGameState
  /\ \E i \in 1..Len(gameState.players) :
       gameState.players[i].username = username

\* C19: the turn indicator is on exactly when the local username is the one
\* whose turn the snapshot names and a player with that username is seated; it
\* is off without a snapshot, when the snapshot names no turn, and for a
\* spectator.
C19_TurnIndicator ==
  /\ IsMyTurn(gameState, username) <=>
       (Seated /\ gameState.current_turn_username = username)
  /\ gameState = NoGameState => ~IsMyTurn(gameState, username)
  /\ (gameState # NoGameState /\ gameState.current_turn_username = NoUser) =>
       ~IsMyTurn(gameState, username)
  /\ ~Seated => ~IsMyTurn(gameState, username)

C19_MyTurnShown ==
  /\ last.op = "message"
  /\ IsMyTurn(gameState, username)
  /\ MySeat(gameState, username) = 2

\* C20: in a snapshot of n >= 1 players with the dealer index d in 0..n-1 the
\* dealer label is on seat d, the small blind label on seat (d + 1) mod n and
\* the big blind label on seat (d + 2) mod n, each on exactly that one seat of
\* 0..n-1.
C20_SeatRoles ==
  gameState # NoGameState =>
    LET n == Len(gameState.players)
        d == gameState.dealer_index
        v == View(gameState, username)
    IN  (n >= 1 /\ d \in 0..(n - 1)) =>
          /\ v.dealer = {d}
          /\ v.sb = {(d + 1) % n}
          /\ v.bb = {(d + 2) % n}
          /\ (v.dealer \cup v.sb \cup v.bb) \subseteq 0..(n - 1)

C20_WrapAround ==
  /\ gameState # NoGameState
  /\ Len(gameState.players) = 4
  /\ gameState.dealer_index = 3
  /\ View(gameState, username).sb = {0}
  /\ View(gameState, username).bb = {1}

\* the text a frame adds to the chat log, <<>> when it adds none
ChatText(f) ==
  IF Throws(f) THEN <<f.raw>>
  ELSE IF Case(f) = "ChatMessage" THEN <<f.payload.text>>
  ELSE <<>>

\* C21: the chat log is append-only and oldest-first: every step leaves the
\* earlier log as a prefix of the later one, a delivered frame adds its chat
\* text (or raw fallback text) at the end at the moment it arrives and nothing
\* else adds to the log, so the entries stand in the order of arrival; the
\* list shown is the log reversed.
C21_ChatAppendOnly ==
  /\ [][/\ Len(chatMessages) <= Len(chatMessages')
        /\ SubSeq(chatMessages', 1, Len(chatMessages)) = chatMessages]_vars
  /\ [][IF Delivered
        THEN /\ chatMessages' = chatMessages \o ChatText(last'.frame)
             /\ ChatText(last'.frame) # <<>> =>
                  ChatShown(chatMessages')[1] = ChatText(last'.frame)[1]
        ELSE chatMessages' = chatMessages]_vars

C21_TwoInOrder ==
  /\ last.op = "message"
  /\ chatMessages = <<"hello", "null">>
  /\ last.frame.kind = "null"
  /\ ChatShown(chatMessages) = <<"null", "hello">>

\* C22: an error event only sets the displayed status: the step leaves the
\* reconnect counter, the retry timers, the error text and the socket the
\* page holds as they were, creates no socket and completes the close of
\* none; the retry is decided by the close event that follows.
C22_ErrorOnlySetsStatus ==
  [][(last'.op = "error" /\ sock' # sock) =>
       /\ Mounted => connectionStatus' = "Error"
       /\ reconnectAttempt' = reconnectAttempt
       /\ TimersPending' = TimersPending
       /\ error' = error
       /\ ws' = ws
       /\ Len(sock') = Len(sock)
       /\ \A s \in Sockets : sock'[s].st = "closed" => sock[s].st = "closed"]_vars

C22_ErrorOnRetry ==
  /\ Mounted
  /\ last.op = "error"
  /\ connectionStatus = "Error"
  /\ reconnectAttempt = 1
  /\ TimersPending = 0
  /\ sock[last.sid].st = "closing"

\* C23: no inbound frame leads to a crash: whatever frames were handled, the
\* render of the mounted page completes without throwing.
C23_AlwaysRenderable == Mounted => ~RenderThrows(gameState, myHand)

\* the socket created last for the session the effect started last
CurrentTransport ==
  CHOOSE s \in Sockets :
    /\ sock[s].epoch = Len(sessions)
    /\ \A r \in Sockets : sock[r].epoch = Len(sessions) => r <= s

\* C24: on the mounted page the status follows the connection: Connecting
\* after a socket was created, Connected after an open event, Error after an
\* error event, Disconnected after a close event; it is Connected only while
\* the socket whose open set it has had no error or close event, and never
\* while the current socket of the session is closed.
C24_StatusFollowsTransport ==
  Mounted =>
    /\ (last.sid # NoSocket /\ last.op \in EffectOps \cup {"navigate", "timer"}) =>
         connectionStatus = "Connecting"
    /\ last.op = "open" => connectionStatus = "Connected"
    /\ last.op = "error" => connectionStatus = "Error"
    /\ last.op = "close" => connectionStatus = "Disconnected"
    /\ connectionStatus = "Connected" =>
         /\ ws # NoSocket
         /\ \/ sock[ws].st = "open"
            \/ sock[ws].st = "closing" /\ sock[ws].code = 1005
         /\ sessions # <<>> => sock[CurrentTransport].st # "closed"

\* C25: on the local player's turn the button is labelled Call, with the
\* current bet of the snapshot as amount, exactly when the player's own bet
\* is below the current bet, and Check otherwise; under either label the
\* frame written is a PlayerAction with action Call and no amount.
C25_CallOrCheck ==
  /\ [](IsMyTurn(gameState, username) =>
          /\ CallLabel(gameState, username) = "Call" <=>
               MyPlayerState(gameState, username).current_bet
                 < gameState.current_bet
          /\ CallLabel(gameState, username) = "Check" <=>
               MyPlayerState(gameState, username).current_bet
                 >= gameState.current_bet
          /\ CallAmount(gameState) = gameState.current_bet)
  /\ [][(sent' # sent /\ Written.action = "Call") =>
          /\ IsMyTurn(gameState, username)
          /\ Written.type = "PlayerAction"
          /\ Written.amount = -1]_vars

C25_CheckSent ==
  /\ last.op = "action"
  /\ sent # <<>>
  /\ sent[Len(sent)].action = "Call"
  /\ sent[Len(sent)].amount = -1
  /\ CallLabel(gameState, username) = "Check"

\* C26: the cards of a player in the snapshot are listed exactly when the
\* status of the snapshot is Showdown and the hand is not empty; with any
\* other status nothing of the hand is listed even if the snapshot carries it.
C26_HandShownAtShowdownOnly ==
  gameState # NoGameState =>
    \A i \in Seats(gameState) :
      /\ HandShown(gameState, i) <=>
           /\ gameState.status = "Showdown"
           /\ gameState.players[i + 1].hand # <<>>
      /\ HandText(gameState, i) =
           IF gameState.status = "Showdown"
           THEN gameState.players[i + 1].hand ELSE <<>>

C26_HiddenWhilePlaying ==
  /\ Mounted
  /\ gameState # NoGameState
  /\ gameState.status = "Playing"
  /\ Len(gameState.players) = 2
  /\ gameState.players[2].hand = <<"Qs", "Qh">>
  /\ HandText(gameState, 1) = <<>>

\* C27: log-out is best-effort: when the POST /api/logout request settles,
\* with a success status, an error status or a rejection, the store is
\* cleared (isLoggedIn false, username null), and it stays cleared.
C27_LogoutClearsStore ==
  /\ [][(logoutPc = "posting" /\ logoutPc' # "posting") =>
          (~isLoggedIn' /\ username' = NoUser)]_vars
  /\ [](logoutPc = "leaving" => (~isLoggedIn /\ username = NoUser))

C27_ClearedAfterRejection ==
  /\ last.op = "logoutDone"
  /\ last.code = 0
  /\ logoutPc = "leaving"
  /\ ~isLoggedIn
  /\ username = NoUser

\* the room whose request a step settled
Fetched == CHOOSE r \in Rooms : fetches'[r] < fetches[r]

TornDown == sessions # <<>> /\ ~sessions[Len(sessions)].live

\* C29: once the teardown of the session has set the reconnect counter to
\* its cap, the counter stays at the cap: no open event of a socket that was
\* still connecting at teardown, and no other callback, lowers it.
C29_CounterStaysAtCap == TornDown => reconnectAttempt = MaxReconnect

LiveOf(e) == {s \in Sockets : sock[s].epoch = e /\ Live(s)}

\* C31: at most one reconnect timer is pending at any time, and a session has
\* a timer pending only while none of its sockets is connecting or open.
C31_OneTimerPending ==
  /\ TimersPending <= 1
  /\ \A e \in Sessions : sessions[e].timers > 0 => LiveOf(e) = {}

\* the handlers of the connection life cycle
ConnectionOps == {"open", "close", "error", "timer"}

\* C32: open, close, error and retry-timer events leave the snapshot, the
\* hand and the chat log as they were; these change only in a step that
\* delivers an inbound frame.
C32_ViewSurvivesReconnect ==
  /\ [][(sock' # sock /\ last'.op \in ConnectionOps) =>
          UNCHANGED <<gameState, myHand, chatMessages>>]_vars
  /\ [][<<gameState, myHand, chatMessages>>' #
            <<gameState, myHand, chatMessages>> =>
          (received' = received + 1 /\ last'.op = "message")]_vars

C32_HeldAfterReopen ==
  /\ last.op = "open"
  /\ last.sid > 1
  /\ sock[last.sid].st = "open"
  /\ gameState # NoGameState
  /\ chatMessages # <<>>

\* C33: whatever GET /api/me answers, isInitialized becomes true; it is set
\* by the step that follows the login/logout decision of the check, and once
\* true it is never false again.
C33_InitializationCompletes ==
  /\ <>isInitialized
  /\ [][isInitialized' # isInitialized =>
          (authPc = "decided" /\ isInitialized')]_vars
  /\ [][isInitialized => isInitialized']_vars

C33_InitializedAfterRefusal ==
  /\ last.op = "authFinally"
  /\ authPc = "done"
  /\ isInitialized
  /\ ~isLoggedIn
  /\ username = NoUser

\* C34: in every state isLoggedIn is true exactly when username is not null,
\* however login, logout and setInitialized are interleaved, and a call of
\* setInitialized leaves isLoggedIn and username as they were.
C34_LoggedInIffNamed ==
  /\ [](isLoggedIn <=> username # NoUser)
  /\ [][last'.op \in {"setInitialized", "authFinally"} /\ last' # last =>
          UNCHANGED <<isLoggedIn, username>>]_vars

C34_EmptyNameLoggedIn ==
  /\ last.op = "setInitialized"
  /\ ~isInitialized
  /\ isLoggedIn
  /\ username = ""

\* C35: a chat submission writes a frame only when the held socket is open
\* and the input has a character that is not white space; the frame is a
\* ChatMessage carrying the input as typed, the input is emptied exactly when
\* a frame was written, and a submission that writes nothing leaves the
\* input, the chat log and the sockets as they were.
C35_ChatSubmission ==
  /\ [][last'.op = "chat" /\ sent' # sent =>
          /\ ws # NoSocket /\ sock[ws].st = "open"
          /\ Trim(chatInput) # ""
          /\ sent' = Append(sent, Written)
          /\ Written.type = "ChatMessage"
          /\ Written.text = chatInput
          /\ Written.sid = ws]_vars
  /\ [][last'.op = "chat" =>
          /\ (chatInput' = "" /\ chatInput # "") <=> sent' # sent
          /\ sent' = sent => chatInput' = chatInput
          /\ UNCHANGED <<chatMessages, sock, ws>>]_vars

C35_SentAsTyped ==
  /\ last.op = "chat"
  /\ Len(sent) = 1
  /\ sent[1].type = "ChatMessage"
  /\ sent[1].text = " hi "
  /\ chatInput = ""
====
